---- MODULE Spec2Model ----
(***************************************************************************)
(* Model of the aurora-ontology Obsidian plugin: the note classifier, the  *)
(* frontmatter parser, the InsightSyncService (pending set, drain pass,    *)
(* delete / rename handling, full resync) and the query orchestration of   *)
(* AuroraOntologyPlugin.doQuery with the InsightPanelView state.           *)
(*                                                                         *)
(* Paths and note texts are sequences of one-character strings so that     *)
(* prefix tests and the header regex are computed, not assumed.            *)
(***************************************************************************)
EXTENDS Integers, Sequences, FiniteSets, Bags, TLC

\* ------------------------------------------------------------------ bounds

\* Number of host file-lifecycle notifications in one behaviour.
MaxEvents == 2

\* The per-path enqueue counter (instrumentation) saturates here.
MaxEnq == 2

\* The log of upserts issued since the last notification saturates here.
MaxLog == 2

\* Number of doQuery invocations in one behaviour.
MaxQueries == 2

\* Number of executions of syncAllInsights in flight at once.
MaxSweeps == 2

\* Number of executions of reindexInsights in flight at once.
MaxReindex == 2

\* ------------------------------------------------------------------ texts

Range(s) == {s[k] : k \in 1..Len(s)}

StartsWith(s, pre) ==
  /\ Len(s) >= Len(pre)
  /\ SubSeq(s, 1, Len(pre)) = pre

ThoughtsPrefix == <<"T", "h", "o", "u", "g", "h", "t", "s", "/">>
QuestionsPrefix == <<"Q", "u", "e", "s", "t", "i", "o", "n", "s", "/">>
InsightsPrefix == <<"I", "n", "s", "i", "g", "h", "t", "s", "/">>

PathIa == InsightsPrefix \o <<"a">>
PathIb == InsightsPrefix \o <<"b">>
PathT == ThoughtsPrefix \o <<"t">>
PathQ == QuestionsPrefix \o <<"q">>

\* The paths the host reports file events for, and all paths of the vault.
Paths == {PathIa, PathIb, PathT}
AllPaths == Paths \cup {PathQ}

\* The order in which vault.getFiles() lists the files.
PathOrder == <<PathIa, PathIb, PathT, PathQ>>

NoPath == <<>>

\* classifyNote: the role is decided by the folder prefix, in this order.
classifyNote(path) ==
  IF StartsWith(path, ThoughtsPrefix) THEN "thought"
  ELSE IF StartsWith(path, QuestionsPrefix) THEN "question"
  ELSE IF StartsWith(path, InsightsPrefix) THEN "insight"
  ELSE "null"

isInsightNote(path) == classifyNote(path) = "insight"

isQuestionNote(path) == classifyNote(path) = "question"

\* Raw note texts: one without a header, one with a header block.
TextX == <<"X">>
TextHdrY == <<"-", "-", "-", "\n", "t", ":", "i", "\n", "-", "-", "-", "\n", "Y">>
Texts == {TextX, TextHdrY}

HeaderOpen == <<"-", "-", "-", "\n">>
HeaderClose == <<"\n", "-", "-", "-">>

\* Positions k at which the closing "\n---" of the header regex can start:
\* after the opening "---\n", the lazy group taking content[5..k-1].
ClosePositions(content) ==
  {k \in 5..(Len(content) - 3) : SubSeq(content, k, k + 3) = HeaderClose}

SetMin(S) == CHOOSE x \in S : \A y \in S : x <= y

\* A parser that never removes the header.
ParseBodyWhole(content) == content

\* The body part of parseFrontmatter:
\*   /^---\n([\s\S]*?)\n---\n?([\s\S]*)$/ , group 2; the whole text on no match.
ParseBody(content) ==
  IF ~StartsWith(content, HeaderOpen) \/ ClosePositions(content) = {}
  THEN content
  ELSE LET k == SetMin(ClosePositions(content))
           rest == SubSeq(content, k + 4, Len(content))
       IN IF Len(rest) > 0 /\ rest[1] = "\n" THEN Tail(rest) ELSE rest

\* ------------------------------------------------------------------ parser

\* The keys parseFrontmatter has a case for.
KeyType == <<"t", "y", "p", "e">>
KeyCreated == <<"c", "r", "e", "a", "t", "e", "d">>
KeyStatus == <<"s", "t", "a", "t", "u", "s">>
KeyTriggeredBy == <<"t", "r", "i", "g", "g", "e", "r", "e", "d", "_", "b", "y">>
KeyConfidence == <<"c", "o", "n", "f", "i", "d", "e", "n", "c", "e">>
KeyEvolvedFrom == <<"e", "v", "o", "l", "v", "e", "d", "_", "f", "r", "o", "m">>

RecognizedKeys ==
  {KeyType, KeyCreated, KeyStatus, KeyTriggeredBy, KeyConfidence, KeyEvolvedFrom}

\* A frontmatter object: <<>> for a key that is not set, <<value>> otherwise.
EmptyFrontmatter == [k \in RecognizedKeys |-> <<>>]

\* String.prototype.indexOf(ch): the first position of ch (1-based), 0 if none.
IndexOf(s, ch) ==
  IF \E k \in 1..Len(s) : s[k] = ch
  THEN SetMin({k \in 1..Len(s) : s[k] = ch})
  ELSE 0

\* String.prototype.split('\n')
RECURSIVE Split(_)
Split(s) ==
  LET k == IndexOf(s, "\n") IN
  IF k = 0 THEN <<s>>
  ELSE <<SubSeq(s, 1, k - 1)>> \o Split(SubSeq(s, k + 1, Len(s)))

\* The code units String.prototype.trim() strips, ECMAScript WhiteSpace: TAB,
\* VT, FF, SP, NBSP, ZWNBSP and the space separators (U+1680, U+2000 to U+200A,
\* U+202F, U+205F, U+3000). A character that cannot be written in a string
\* here is the element named by its code point.
WhiteSpace ==
  {"\t", "", "\f", " ", " ", "﻿", " ",
   "U+000B", "U+00A0", "U+FEFF", "U+1680",
   "U+2000", "U+2001", "U+2002", "U+2003", "U+2004", "U+2005", "U+2006",
   "U+2007", "U+2008", "U+2009", "U+200A", "U+202F", "U+205F", "U+3000"}

\* ECMAScript LineTerminator: LF, CR, LS, PS.
LineTerminator == {"\n", "\r", "U+2028", "U+2029"}

\* String.prototype.trim(): white space and line terminators are removed from
\* both ends.
RECURSIVE Trim(_)
Trim(s) ==
  IF s = <<>> THEN s
  ELSE IF s[1] \in WhiteSpace \cup LineTerminator THEN Trim(Tail(s))
  ELSE IF s[Len(s)] \in WhiteSpace \cup LineTerminator
       THEN Trim(SubSeq(s, 1, Len(s) - 1))
  ELSE s

\* "Remove quotes if present": value.slice(1, -1) when the value starts and
\* ends with the same quote character.
Unquote(value) ==
  IF /\ Len(value) >= 1
     /\ \/ value[1] = "\"" /\ value[Len(value)] = "\""
        \/ value[1] = "'" /\ value[Len(value)] = "'"
  THEN SubSeq(value, 2, Len(value) - 1)
  ELSE value

\* One iteration of the loop over the header lines.
ParseLine(fm, line) ==
  LET c == IndexOf(line, ":")
      key == Trim(SubSeq(line, 1, c - 1))
      value == Unquote(Trim(SubSeq(line, c + 1, Len(line))))
  IN IF c = 0 THEN fm
     ELSE IF key \in RecognizedKeys THEN [fm EXCEPT ![key] = <<value>>]
     ELSE fm

RECURSIVE ParseLines(_, _)
ParseLines(fm, lines) ==
  IF lines = <<>> THEN fm
  ELSE ParseLines(ParseLine(fm, Head(lines)), Tail(lines))

\* parseFrontmatter(content)
parseFrontmatter(content) ==
  IF ~StartsWith(content, HeaderOpen) \/ ClosePositions(content) = {}
  THEN [frontmatter |-> EmptyFrontmatter, body |-> content]
  ELSE LET k == SetMin(ClosePositions(content))
           raw == SubSeq(content, 5, k - 1)
       IN [frontmatter |-> ParseLines(EmptyFrontmatter, Split(raw)),
           body |-> ParseBody(content)]

\* ------------------------------------------------------------------ state

VARIABLES
  vault,        \* host storage: path -> [kind, content]
  index,        \* remote index: path -> [present, content]
  syncQueue,    \* InsightSyncService.syncQueue, in insertion order
  isSyncing,    \* InsightSyncService.isSyncing
  timerArmed,   \* processSyncQueueDebounced has a call pending
  drains,       \* executions of processSyncQueue past its guard
  handlers,     \* onFileDelete / onFileRename awaiting deleteInsight
  resync,       \* the executions of syncAllInsights in flight (a bag)
  reindexing,   \* executions of reindexInsights awaiting the response
  nEvents,      \* host notifications so far
  enqCount,     \* queueSync calls per path since the last snapshot
  upLog,        \* upserts issued by drain passes since the last notification
  failSeen,     \* a read or remote call failed since the last notification
  lastEvent,    \* the last host notification
  step,         \* the operation that ran last and what it did
  panel,        \* AuroraOntologyPlugin.insightPanel and its fields
  queries,      \* executions of doQuery awaiting a read or a remote call
  nQueries,     \* doQuery invocations so far
  qstep,        \* the step of doQuery that ran last and what it did
  settings,     \* AuroraOntologyPlugin.settings: topK and minSimilarity
  saved,        \* the settings data the host has stored for the plugin
  pin,          \* the text handed to parseFrontmatter, by its parts
  pout          \* what parseFrontmatter returned for it

syncVars == <<vault, index, syncQueue, isSyncing, timerArmed, drains, handlers,
              resync, reindexing, nEvents, enqCount, upLog, failSeen, lastEvent,
              step>>

queryVars == <<panel, queries, nQueries, qstep, settings, saved>>

parseVars == <<pin, pout>>

vars == <<syncVars, queryVars, parseVars>>

NoEntry == [kind |-> "none", content |-> <<>>]
FolderEntry == [kind |-> "folder", content |-> <<>>]
FileEntry(c) == [kind |-> "file", content |-> c]

Absent == [present |-> FALSE, content |-> <<>>]
Indexed(c) == [present |-> TRUE, content |-> c]

\* vault.getAbstractFileByPath(path) instanceof TFile
IsTFile(path) == vault[path].kind = "file"

Call(op, path, content) == [op |-> op, path |-> path, content |-> content]

\* A reference to a TFile object held across an await. The host keeps one
\* object per file: a rename rewrites its path in place, a delete leaves the
\* path as it was and the object detached from the vault.
FileRef(path) == [path |-> path, live |-> TRUE]
NoFile == [path |-> NoPath, live |-> FALSE]

\* What a held reference shows after the host renamed oldPath to newPath.
Moved(f, oldPath, newPath) ==
  IF f.live /\ f.path = oldPath THEN [f EXCEPT !.path = newPath] ELSE f

\* What a held reference shows after the host deleted path.
Unlinked(f, path) ==
  IF f.live /\ f.path = path THEN [f EXCEPT !.live = FALSE] ELSE f

\* A drain pass: the snapshot, the position in it, where it is suspended, the
\* file syncInsight holds while its read is pending, and the path and body of
\* the request in flight; then what it did so far: the snapshot paths it
\* skipped, those whose read failed, those it issued indexInsight for, those
\* its catch block handled, and the enqueue counts at the snapshot.
NoPass == [paths |-> <<>>, i |-> 0, stage |-> "none", file |-> NoFile,
           sent |-> NoPath, body |-> <<>>,
           skipped |-> <<>>, unread |-> <<>>, issued |-> <<>>, failed |-> <<>>,
           enq |-> [p \in AllPaths |-> 0]]

Event(op, path, other, isFile, text) ==
  [op |-> op, path |-> path, other |-> other, isFile |-> isFile, text |-> text]

\* SyncStats as returned by syncAllInsights, with the paths it had listed and
\* the number of files whose sync it attempted (got past the guard of
\* syncInsight to the read).
NoStats == [returned |-> FALSE, indexed |-> 0, errors |-> <<>>, swept |-> <<>>,
            attempted |-> 0]

\* The record of one step: the operation, its arguments and outcome, the
\* remote calls it issued, the drain pass it ended and the SyncStats it
\* returned (if any).
Did(op, path, other, ok, calls, pass, stats) ==
  [op |-> op, path |-> path, other |-> other, ok |-> ok,
   sent |-> calls, ended |-> pass, stats |-> stats]

\* InsightPanelView as constructed; open says whether the plugin holds a view.
\* currentQuestion is <<>> for null and <<text>> otherwise.
NewPanel(open) ==
  [open |-> open, currentQuestion |-> <<>>, insights |-> <<>>, questions |-> <<>>,
   isLoading |-> FALSE]

QDid(op, id, ok, result, calls, notice) ==
  [op |-> op, id |-> id, ok |-> ok, result |-> result, sent |-> calls,
   notice |-> notice]

\* DEFAULT_SETTINGS.topK and DEFAULT_SETTINGS.minSimilarity (in percent: 30
\* stands for 0.3).
TopK == 5
MinSimilarity == 30

\* The defaults of the two settings doQuery reads.
DEFAULT_SETTINGS == [topK |-> TopK, minSimilarity |-> MinSimilarity]

\* The limits of the slider "Number of Results".
TopKLowest == 1
TopKLimit == 10

\* The values the sliders are moved to (minSimilarity in percent): the lowest
\* topK is below the length of a retrieval result, the highest above it.
TopKChoices == {TopKLowest, TopK, TopKLimit}
MinSimilarityChoices == {MinSimilarity, 50}

\* The data the host has stored: none on a first start, or what an earlier
\* session saved.
NoData == [k \in {} |-> 0]
SavedData == {NoData, [topK |-> TopKLimit, minSimilarity |-> 50]}

\* loadSettings: Object.assign({}, DEFAULT_SETTINGS, await this.loadData())
loadSettings(data) ==
  [k \in DOMAIN DEFAULT_SETTINGS |->
     IF k \in DOMAIN data THEN data[k] ELSE DEFAULT_SETTINGS[k]]

\* The plugin after onload, started on the stored data.
QueryInitOn(data) ==
  /\ queries = <<>>
  /\ nQueries = 0
  /\ qstep = QDid("init", 0, TRUE, <<>>, <<>>, FALSE)
  /\ saved = data
  /\ settings = loadSettings(data)

QueryInit == QueryInitOn(NoData)

\* The vaults the plugin may be loaded on: an empty one, and one holding a
\* Thought note and an Insight note that an earlier session has indexed.
InitVaults ==
  {[p \in AllPaths |-> NoEntry],
   [p \in AllPaths |-> IF p \in {PathIa, PathT} THEN FileEntry(TextX) ELSE NoEntry]}

SyncInit ==
  /\ index = [p \in AllPaths |->
                IF vault[p].kind = "file" /\ isInsightNote(p)
                THEN Indexed(ParseBody(vault[p].content)) ELSE Absent]
  /\ syncQueue = <<>>
  /\ isSyncing = FALSE
  /\ timerArmed = FALSE
  /\ drains = {}
  /\ handlers = <<>>
  /\ resync = EmptyBag
  /\ reindexing = 0
  /\ nEvents = 0
  /\ enqCount = [p \in AllPaths |-> 0]
  /\ upLog = <<>>
  /\ failSeen = FALSE
  /\ lastEvent = Event("none", NoPath, NoPath, FALSE, <<>>)
  /\ step = Did("init", NoPath, NoPath, TRUE, <<>>, NoPass, NoStats)

NoInput == [open |-> <<>>, lines |-> <<>>, close |-> <<>>, body |-> <<>>]
NoOutput == [done |-> FALSE, frontmatter |-> EmptyFrontmatter, body |-> <<>>]

\* parseFrontmatter is not being exercised on its own.
ParseIdle ==
  /\ pin = NoInput
  /\ pout = NoOutput

Init ==
  /\ vault \in InitVaults
  /\ SyncInit
  /\ panel = NewPanel(FALSE)
  /\ QueryInit
  /\ ParseIdle

\* ------------------------------------------------------------------ queue

\* Set.prototype.add on the pending set: a path already pending keeps its
\* place, a new one goes to the end of the insertion order.
QueueAdd(q, path) == IF path \in Range(q) THEN q ELSE Append(q, path)

Bump(cnt, path) ==
  [cnt EXCEPT ![path] = IF @ < MaxEnq THEN @ + 1 ELSE @]

Logged(log, call) == IF Len(log) < MaxLog THEN Append(log, call) ELSE log

\* queueSync(path): add to the pending set, call the debounced trigger.
queueSync(path) ==
  /\ syncQueue' = QueueAdd(syncQueue, path)
  /\ timerArmed' = TRUE
  /\ enqCount' = Bump(enqCount, path)

\* A catch block that only logs.
CatchDrop(q, path) == q

\* The catch block of the drain loop: a failed sync is put back.
CatchRequeue(q, path) == QueueAdd(q, path)

\* ------------------------------------------------------------------ drain

\* A loop that takes every snapshot path to syncInsight, resolved or not.
RECURSIVE NextFileUnchecked(_, _)
NextFileUnchecked(paths, j) == j

\* The for loop of processSyncQueue run without yielding from position j:
\* the first position whose path resolves to a file that syncInsight accepts,
\* or Len(paths) + 1 when the loop runs off the end.
RECURSIVE NextFile(_, _)
NextFile(paths, j) ==
  IF j > Len(paths) THEN j
  ELSE IF IsTFile(paths[j]) /\ isInsightNote(paths[j]) THEN j
  ELSE NextFile(paths, j + 1)

\* The pass as it leaves the loop, or NoPass while it is still inside.
EndedPass(pass, j) ==
  LET k == NextFile(pass.paths, j) IN
  IF k <= Len(pass.paths) THEN NoPass
  ELSE [pass EXCEPT !.i = k, !.stage = "done", !.file = NoFile,
                    !.sent = NoPath, !.body = <<>>,
                    !.skipped = @ \o SubSeq(pass.paths, j, k - 1)]

\* A pass whose epilogue does not call the debounced trigger.
ContinuePassNoReschedule(d, pass, j, q, t) ==
  LET k == NextFile(pass.paths, j) IN
  IF k <= Len(pass.paths)
  THEN /\ drains' = (drains \ {d}) \cup
                      {[pass EXCEPT !.i = k, !.stage = "reading",
                                    !.file = FileRef(pass.paths[k]),
                                    !.sent = NoPath, !.body = <<>>,
                                    !.skipped = @ \o SubSeq(pass.paths, j, k - 1)]}
       /\ isSyncing' = TRUE
       /\ syncQueue' = q
       /\ timerArmed' = t
  ELSE /\ drains' = drains \ {d}
       /\ isSyncing' = FALSE
       /\ syncQueue' = q
       /\ timerArmed' = t

\* Resume the loop of pass d at position j with pending set q and debounce
\* state t: either resolve the next path to its file and suspend in
\* vault.read(file), or leave the loop, clear isSyncing and call the debounced
\* trigger again when something is pending.
ContinuePass(d, pass, j, q, t) ==
  LET k == NextFile(pass.paths, j) IN
  IF k <= Len(pass.paths)
  THEN /\ drains' = (drains \ {d}) \cup
                      {[pass EXCEPT !.i = k, !.stage = "reading",
                                    !.file = FileRef(pass.paths[k]),
                                    !.sent = NoPath, !.body = <<>>,
                                    !.skipped = @ \o SubSeq(pass.paths, j, k - 1)]}
       /\ isSyncing' = TRUE
       /\ syncQueue' = q
       /\ timerArmed' = t
  ELSE /\ drains' = drains \ {d}
       /\ isSyncing' = FALSE
       /\ syncQueue' = q
       /\ timerArmed' = IF Len(q) > 0 THEN TRUE ELSE t

\* A guard that tests only the pending set.
DrainGuardNoFlag == Len(syncQueue) # 0

\* The guard of processSyncQueue.
DrainGuard == ~(isSyncing \/ Len(syncQueue) = 0)

\* A snapshot that leaves the pending set as it is.
NotCleared(q) == q

\* this.syncQueue.clear() after the snapshot was taken.
Cleared(q) == <<>>

\* The debounce timer fires and runs processSyncQueue up to its first await.
TimerFire ==
  /\ timerArmed
  /\ IF DrainGuard
     THEN LET pass == [NoPass EXCEPT !.paths = syncQueue, !.enq = enqCount]
          IN /\ ContinuePass(pass, pass, 1, Cleared(syncQueue), FALSE)
             /\ enqCount' = [p \in AllPaths |-> 0]
             /\ step' = Did("drainStart", NoPath, NoPath, TRUE, <<>>,
                            EndedPass(pass, 1), NoStats)
     ELSE /\ timerArmed' = FALSE
          /\ step' = Did("drainIgnored", NoPath, NoPath, TRUE, <<>>, NoPass, NoStats)
          /\ UNCHANGED <<syncQueue, isSyncing, drains, enqCount>>
  /\ UNCHANGED <<vault, index, handlers, resync, nEvents, upLog, failSeen, lastEvent>>
  /\ UNCHANGED <<reindexing, queryVars, parseVars>>

\* The content vault.read(file) resolves with: that of the file the reference
\* points to, wherever the host has moved it.
ReadContent(f) == IF f.live THEN vault[f.path].content ELSE <<>>

\* syncInsight after vault.read(file) settles for the current path of pass d:
\* on a read error the catch block of the loop re-queues the snapshot path and
\* the loop goes on; otherwise the header is stripped and indexInsight is
\* issued with file.path as it is now (the file may have been renamed since
\* the path was resolved). A detached file cannot be read.
ReadDone(d, ok) ==
  LET path == d.paths[d.i]
      body == ParseBody(ReadContent(d.file))
      call == Call("upsert", d.file.path, body)
      failed == [d EXCEPT !.file = NoFile,
                          !.failed = Append(@, path), !.unread = Append(@, path)] IN
  /\ d.stage = "reading"
  /\ ok => d.file.live
  /\ IF ok
     THEN /\ drains' = (drains \ {d}) \cup
                         {[d EXCEPT !.stage = "upserting", !.file = NoFile,
                                    !.sent = d.file.path, !.body = body,
                                    !.issued = Append(@, path)]}
          /\ upLog' = Logged(upLog, call)
          /\ step' = Did("readDone", path, d.file.path, TRUE,
                         <<call>>, NoPass, NoStats)
          /\ UNCHANGED <<syncQueue, isSyncing, timerArmed, failSeen>>
     ELSE /\ ContinuePass(d, failed, d.i + 1,
                          CatchRequeue(syncQueue, path), timerArmed)
          /\ failSeen' = TRUE
          /\ step' = Did("readDone", path, NoPath, FALSE, <<>>,
                         EndedPass(failed, d.i + 1), NoStats)
          /\ UNCHANGED upLog
  /\ UNCHANGED <<vault, index, handlers, resync, nEvents, enqCount, lastEvent>>
  /\ UNCHANGED <<reindexing, queryVars, parseVars>>

\* indexInsight settles for the current path of pass d: the remote index takes
\* the entry under the path the request carried; on failure the snapshot path
\* is re-queued. The loop goes on.
UpsertDone(d, ok) ==
  LET path == d.paths[d.i]
      failed == [d EXCEPT !.failed = Append(@, path)] IN
  /\ d.stage = "upserting"
  /\ IF ok
     THEN /\ index' = [index EXCEPT ![d.sent] = Indexed(d.body)]
          /\ ContinuePass(d, d, d.i + 1, syncQueue, timerArmed)
          /\ step' = Did("upsertDone", path, d.sent, TRUE, <<>>,
                         EndedPass(d, d.i + 1), NoStats)
          /\ UNCHANGED failSeen
     ELSE /\ index' = index
          /\ ContinuePass(d, failed, d.i + 1,
                          CatchRequeue(syncQueue, path), timerArmed)
          /\ step' = Did("upsertDone", path, d.sent, FALSE, <<>>,
                         EndedPass(failed, d.i + 1), NoStats)
          /\ failSeen' = TRUE
  /\ UNCHANGED <<vault, handlers, resync, nEvents, enqCount, upLog, lastEvent>>
  /\ UNCHANGED <<reindexing, queryVars, parseVars>>


\* ------------------------------------------------------------------ events

\* The three branches of onFileRename, decided on the raw path prefixes.
RenameCase(oldPath, newPath) ==
  IF StartsWith(oldPath, InsightsPrefix) /\ ~StartsWith(newPath, InsightsPrefix)
  THEN "out"
  ELSE IF ~StartsWith(oldPath, InsightsPrefix) /\ StartsWith(newPath, InsightsPrefix)
  THEN "in"
  ELSE IF StartsWith(oldPath, InsightsPrefix) /\ StartsWith(newPath, InsightsPrefix)
  THEN "within"
  ELSE "none"

\* onFileRename enqueues the new path before any await only when a file
\* moved into the Insights folder.
EnqueuesAtOnce(case, isFile) == case = "in" /\ isFile

\* A delete handler without its guard.
DeleteAny(path) == TRUE

\* The guard of onFileDelete.
DeleteIsInsight(path) == StartsWith(path, InsightsPrefix)

\* A handler suspended in deleteInsight(target): which branch it is in, the
\* arguments it was called with, and the file it reads the path of once the
\* call has settled (the rename inside the Insights folder only).
Handler(kind, target, new, isFile) ==
  [kind |-> kind, target |-> target, new |-> new, isFile |-> isFile,
   file |-> IF kind = "within" /\ isFile THEN FileRef(new) ELSE NoFile]

\* The references held by suspended code after a rename and after a delete.
MovedPass(d, oldPath, newPath) == [d EXCEPT !.file = Moved(@, oldPath, newPath)]
UnlinkedPass(d, path) == [d EXCEPT !.file = Unlinked(@, path)]

MovedHandlers(hs, oldPath, newPath) ==
  [k \in 1..Len(hs) |-> [hs[k] EXCEPT !.file = Moved(@, oldPath, newPath)]]
UnlinkedHandlers(hs, path) ==
  [k \in 1..Len(hs) |-> [hs[k] EXCEPT !.file = Unlinked(@, path)]]

MovedSweep(r, oldPath, newPath) ==
  [r EXCEPT !.files = [j \in 1..Len(@) |-> Moved(@[j], oldPath, newPath)]]
UnlinkedSweep(r, path) ==
  [r EXCEPT !.files = [j \in 1..Len(@) |-> Unlinked(@[j], path)]]

RECURSIVE SumCopies(_, _)
SumCopies(B, S) ==
  IF S = {} THEN 0
  ELSE LET x == CHOOSE y \in S : TRUE IN B[x] + SumCopies(B, S \ {x})

\* The bag B with every element x turned into f[x].
Relisted(B, f) ==
  LET S == BagToSet(B)
      T == {f[x] : x \in S}
  IN [y \in T |-> SumCopies(B, {x \in S : f[x] = y})]

MovedSweeps(B, oldPath, newPath) ==
  Relisted(B, [r \in BagToSet(B) |-> MovedSweep(r, oldPath, newPath)])
UnlinkedSweeps(B, path) ==
  Relisted(B, [r \in BagToSet(B) |-> UnlinkedSweep(r, path)])

\* onFileCreate / onFileModify
OnFileCreate(path, isFile) ==
  IF isFile /\ isInsightNote(path)
  THEN queueSync(path)
  ELSE UNCHANGED <<syncQueue, timerArmed, enqCount>>

\* The host creates a file or a folder and notifies onFileCreate.
Create(path, isFile, text) ==
  /\ nEvents < MaxEvents
  /\ vault[path].kind = "none"
  /\ vault' = [vault EXCEPT ![path] = IF isFile THEN FileEntry(text) ELSE FolderEntry]
  /\ OnFileCreate(path, isFile)
  /\ nEvents' = nEvents + 1
  /\ upLog' = <<>>
  /\ failSeen' = FALSE
  /\ lastEvent' = Event("create", path, NoPath, isFile, text)
  /\ step' = Did("create", path, NoPath, TRUE, <<>>, NoPass, NoStats)
  /\ UNCHANGED <<index, isSyncing, drains, handlers, resync>>
  /\ UNCHANGED <<reindexing, queryVars, parseVars>>

\* The host rewrites a file and notifies onFileModify.
Modify(path, text) ==
  /\ nEvents < MaxEvents
  /\ vault[path].kind = "file"
  /\ vault' = [vault EXCEPT ![path] = FileEntry(text)]
  /\ OnFileCreate(path, TRUE)
  /\ nEvents' = nEvents + 1
  /\ upLog' = <<>>
  /\ failSeen' = FALSE
  /\ lastEvent' = Event("modify", path, NoPath, TRUE, text)
  /\ step' = Did("modify", path, NoPath, TRUE, <<>>, NoPass, NoStats)
  /\ UNCHANGED <<index, isSyncing, drains, handlers, resync>>
  /\ UNCHANGED <<reindexing, queryVars, parseVars>>

\* The host deletes a file or folder (references held to it become detached)
\* and notifies onFileDelete, which issues deleteInsight for a path under the
\* Insights folder and awaits it.
Delete(path) ==
  /\ nEvents < MaxEvents
  /\ vault[path].kind # "none"
  /\ vault' = [vault EXCEPT ![path] = NoEntry]
  /\ drains' = {UnlinkedPass(d, path) : d \in drains}
  /\ resync' = UnlinkedSweeps(resync, path)
  /\ IF DeleteIsInsight(path)
     THEN /\ handlers' = Append(UnlinkedHandlers(handlers, path),
                                Handler("delete", path, NoPath,
                                        vault[path].kind = "file"))
          /\ step' = Did("delete", path, NoPath, TRUE,
                         <<Call("delete", path, <<>>)>>, NoPass, NoStats)
     ELSE /\ handlers' = UnlinkedHandlers(handlers, path)
          /\ step' = Did("delete", path, NoPath, TRUE, <<>>, NoPass, NoStats)
  /\ nEvents' = nEvents + 1
  /\ upLog' = <<>>
  /\ failSeen' = FALSE
  /\ lastEvent' = Event("delete", path, NoPath, vault[path].kind = "file", <<>>)
  /\ UNCHANGED <<index, syncQueue, isSyncing, timerArmed, enqCount>>
  /\ UNCHANGED <<reindexing, queryVars, parseVars>>

\* The host moves a file or folder, rewriting the path of its object in place
\* (every holder of a reference sees the new path), and notifies
\* onFileRename(file, oldPath).
Rename(oldPath, newPath) ==
  LET isFile == vault[oldPath].kind = "file"
      case == RenameCase(oldPath, newPath) IN
  /\ nEvents < MaxEvents
  /\ vault[oldPath].kind # "none"
  /\ vault[newPath].kind = "none"
  /\ vault' = [vault EXCEPT ![newPath] = vault[oldPath], ![oldPath] = NoEntry]
  /\ drains' = {MovedPass(d, oldPath, newPath) : d \in drains}
  /\ resync' = MovedSweeps(resync, oldPath, newPath)
  /\ IF case \in {"out", "within"}
     THEN /\ handlers' = Append(MovedHandlers(handlers, oldPath, newPath),
                                Handler(case, oldPath, newPath, isFile))
          /\ step' = Did("rename", newPath, oldPath, TRUE,
                         <<Call("delete", oldPath, <<>>)>>, NoPass, NoStats)
          /\ UNCHANGED <<syncQueue, timerArmed, enqCount>>
     ELSE /\ handlers' = MovedHandlers(handlers, oldPath, newPath)
          /\ step' = Did("rename", newPath, oldPath, TRUE, <<>>, NoPass, NoStats)
          /\ IF EnqueuesAtOnce(case, isFile)
             THEN queueSync(newPath)
             ELSE UNCHANGED <<syncQueue, timerArmed, enqCount>>
  /\ nEvents' = nEvents + 1
  /\ upLog' = <<>>
  /\ failSeen' = FALSE
  /\ lastEvent' = Event("rename", newPath, oldPath, isFile, <<>>)
  /\ UNCHANGED <<index, isSyncing>>
  /\ UNCHANGED <<reindexing, queryVars, parseVars>>

RemoveAt(s, k) == SubSeq(s, 1, k - 1) \o SubSeq(s, k + 1, Len(s))

\* After deleteInsight settled, with or without error, onFileRename enqueues
\* the new path when a file was renamed inside the Insights folder; the move
\* out just returns.
EnqueuesAfterDelete(kind, isFile, ok) == kind = "within" /\ isFile

\* A catch block that puts the deleted path back for a retry.
OnDeleteErrorRequeue(q, path) == QueueAdd(q, path)

\* What the catch blocks around deleteInsight do to the pending set: they log.
OnDeleteError(q, path) == q

\* deleteInsight settles for the k-th waiting handler: the remote index drops
\* the entry on success, a failure is logged; onFileRename then enqueues
\* file.path, the path the file has by now, when the rename stayed inside the
\* Insights folder.
DeleteDone(k, ok) ==
  LET h == handlers[k]
      q == IF ok THEN syncQueue ELSE OnDeleteError(syncQueue, h.target) IN
  /\ handlers' = RemoveAt(handlers, k)
  /\ index' = IF ok THEN [index EXCEPT ![h.target] = Absent] ELSE index
  /\ IF EnqueuesAfterDelete(h.kind, h.isFile, ok)
     THEN /\ syncQueue' = QueueAdd(q, h.file.path)
          /\ timerArmed' = TRUE
          /\ enqCount' = Bump(enqCount, h.file.path)
     ELSE /\ syncQueue' = q
          /\ UNCHANGED <<timerArmed, enqCount>>
  /\ failSeen' = (failSeen \/ ~ok)
  /\ step' = Did("deleteDone", h.target, h.new, ok, <<>>, NoPass, NoStats)
  /\ UNCHANGED <<vault, isSyncing, drains, resync, nEvents, upLog, lastEvent>>
  /\ UNCHANGED <<reindexing, queryVars, parseVars>>


\* ------------------------------------------------------------------ resync

\* vault.getFiles().filter(isInsightNote)
InsightFiles ==
  SelectSeq(PathOrder, LAMBDA p : IsTFile(p) /\ isInsightNote(p))

\* An execution of syncAllInsights: the file objects it listed (and, for the
\* record, their paths at that moment), the position of its loop, where it is
\* suspended, the path and body of the request in flight, its stats, and the
\* number of files it has read or tried to read.
NoResync == [stage |-> "none", files |-> <<>>, listed |-> <<>>, i |-> 0,
             sent |-> NoPath, body |-> <<>>, indexed |-> 0, errors |-> <<>>,
             attempted |-> 0]

NewSweep(paths) ==
  [NoResync EXCEPT !.files = [k \in 1..Len(paths) |-> FileRef(paths[k])],
                   !.listed = paths]

Stats(r) ==
  [returned |-> TRUE, indexed |-> r.indexed, errors |-> r.errors,
   swept |-> r.listed, attempted |-> r.attempted]

\* The try / catch around syncInsight in the loop of syncAllInsights:
\* stats.indexed++ when it returns, stats.errors.push when it throws.
Tally(r, path, ok) ==
  IF ok THEN [r EXCEPT !.indexed = @ + 1]
  ELSE [r EXCEPT !.errors = Append(@, path)]

\* The for loop of syncAllInsights run without yielding from position j: a
\* file whose path is no longer an Insight path makes syncInsight return at
\* its guard (and is counted as indexed); the loop suspends in vault.read of
\* the first file that passes the guard, or runs off the end.
RECURSIVE ResyncAdvance(_, _)
ResyncAdvance(r, j) ==
  IF j > Len(r.files)
  THEN [r EXCEPT !.i = j, !.stage = "done", !.sent = NoPath, !.body = <<>>]
  ELSE IF isInsightNote(r.files[j].path)
  THEN [r EXCEPT !.i = j, !.stage = "reading", !.sent = NoPath, !.body = <<>>,
                 !.attempted = @ + 1]
  ELSE ResyncAdvance(Tally(r, r.files[j].path, TRUE), j + 1)

ResyncStats(r) == IF r.stage = "done" THEN Stats(r) ELSE NoStats

\* The executions in flight with r added, unless it has returned.
Sweeps(B, r) == IF r.stage = "done" THEN B ELSE B (+) SetToBag({r})

\* A resync that hands its first file to queueSync instead of syncing it.
ResyncStartViaQueue ==
  /\ BagCardinality(resync) < MaxSweeps
  /\ InsightFiles # <<>>
  /\ queueSync(InsightFiles[1])
  /\ step' = Did("resyncStart", NoPath, NoPath, TRUE, <<>>, NoPass, NoStats)
  /\ UNCHANGED <<vault, index, isSyncing, drains, handlers, resync,
                 nEvents, upLog, failSeen, lastEvent>>
  /\ UNCHANGED <<reindexing, queryVars, parseVars>>

\* syncAllInsights is invoked (whether or not another execution is in
\* flight): the files are listed once and the first syncInsight suspends in
\* vault.read.
ResyncStart ==
  LET r == ResyncAdvance(NewSweep(InsightFiles), 1) IN
  /\ BagCardinality(resync) < MaxSweeps
  /\ resync' = Sweeps(resync, r)
  /\ step' = Did("resyncStart", NoPath, NoPath, TRUE, <<>>, NoPass, ResyncStats(r))
  /\ UNCHANGED <<vault, index, syncQueue, isSyncing, timerArmed, drains, handlers,
                 nEvents, enqCount, upLog, failSeen, lastEvent>>
  /\ UNCHANGED <<reindexing, queryVars, parseVars>>

\* vault.read(file) settles inside the execution r of syncAllInsights:
\* indexInsight is issued with file.path as it is now, or the error is pushed
\* to stats.errors under that path and the loop goes on.
ResyncReadDone(r, ok) ==
  LET file == r.files[r.i]
      rest == resync (-) SetToBag({r})
      body == ParseBody(ReadContent(file))
      next == ResyncAdvance(Tally(r, file.path, FALSE), r.i + 1) IN
  /\ r.stage = "reading"
  /\ ok => file.live
  /\ IF ok
     THEN /\ resync' = Sweeps(rest, [r EXCEPT !.stage = "upserting",
                                                  !.sent = file.path,
                                                  !.body = body])
          /\ step' = Did("resyncReadDone", file.path, r.listed[r.i], TRUE,
                         <<Call("upsert", file.path, body)>>, NoPass, NoStats)
     ELSE /\ resync' = Sweeps(rest, next)
          /\ step' = Did("resyncReadDone", file.path, r.listed[r.i], FALSE, <<>>,
                         NoPass, ResyncStats(next))
  /\ failSeen' = (failSeen \/ ~ok)
  /\ UNCHANGED <<vault, index, syncQueue, isSyncing, timerArmed, drains, handlers,
                 nEvents, enqCount, upLog, lastEvent>>
  /\ UNCHANGED <<reindexing, queryVars, parseVars>>

\* indexInsight settles inside the execution r of syncAllInsights: the remote
\* index takes the entry under the path the request carried and stats.indexed
\* is incremented, or the error is pushed to stats.errors under file.path as
\* it is now; the loop goes on.
ResyncUpsertDone(r, ok) ==
  LET file == r.files[r.i]
      next == ResyncAdvance(Tally(r, file.path, ok), r.i + 1) IN
  /\ r.stage = "upserting"
  /\ index' = IF ok THEN [index EXCEPT ![r.sent] = Indexed(r.body)] ELSE index
  /\ resync' = Sweeps(resync (-) SetToBag({r}), next)
  /\ step' = Did("resyncUpsertDone", file.path, r.listed[r.i], ok, <<>>, NoPass,
                 ResyncStats(next))
  /\ failSeen' = (failSeen \/ ~ok)
  /\ UNCHANGED <<vault, syncQueue, isSyncing, timerArmed, drains, handlers,
                 nEvents, enqCount, upLog, lastEvent>>
  /\ UNCHANGED <<reindexing, queryVars, parseVars>>

\* ------------------------------------------------------------------ reindex

\* The index the server holds after POST /insights/reindex: one entry for
\* every Insight note found under the vault path, with the note's body.
Rebuilt(v) ==
  [p \in AllPaths |->
     IF v[p].kind = "file" /\ isInsightNote(p)
     THEN Indexed(ParseBody(v[p].content)) ELSE Absent]

\* The command "Re-index All Insights": reindexInsights sends the request
\* with the vault path and awaits the response.
ReindexStart ==
  /\ reindexing < MaxReindex
  /\ reindexing' = reindexing + 1
  /\ step' = Did("reindex", NoPath, NoPath, TRUE,
                 <<Call("reindex", NoPath, <<>>)>>, NoPass, NoStats)
  /\ UNCHANGED <<vault, index, syncQueue, isSyncing, timerArmed, drains, handlers,
                 resync, nEvents, enqCount, upLog, failSeen, lastEvent>>
  /\ UNCHANGED <<queryVars, parseVars>>

\* The response arrives: the server has rebuilt its index, or the call
\* failed; reindexInsights shows a notice either way and returns.
ReindexDone(ok) ==
  /\ reindexing > 0
  /\ reindexing' = reindexing - 1
  /\ index' = IF ok THEN Rebuilt(vault) ELSE index
  /\ step' = Did("reindexDone", NoPath, NoPath, ok, <<>>, NoPass, NoStats)
  /\ UNCHANGED <<vault, syncQueue, isSyncing, timerArmed, drains, handlers,
                 resync, nEvents, enqCount, upLog, failSeen, lastEvent>>
  /\ UNCHANGED <<queryVars, parseVars>>

\* ------------------------------------------------------------------ spec

Next ==
  \/ TimerFire
  \/ \E d \in drains : \E ok \in BOOLEAN : ReadDone(d, ok)
  \/ \E d \in drains : \E ok \in BOOLEAN : UpsertDone(d, ok)
  \/ \E p \in Paths : \E f \in BOOLEAN : \E t \in Texts : Create(p, f, t)
  \/ \E p \in Paths : \E t \in Texts : Modify(p, t)
  \/ \E p \in Paths : Delete(p)
  \/ \E p \in Paths : \E n \in AllPaths : Rename(p, n)
  \/ \E k \in 1..Len(handlers) : \E ok \in BOOLEAN : DeleteDone(k, ok)

\* The event-driven pipeline alone: the user runs no command.
Spec == Init /\ [][Next]_vars

ReindexNext ==
  \/ Next
  \/ ReindexStart
  \/ \E ok \in BOOLEAN : ReindexDone(ok)

\* The pipeline with the command "Re-index All Insights" run at any time.
ReindexSpec == Init /\ [][ReindexNext]_vars

\* The notifications explored next to a full resync: files with one text,
\* at the Insight paths, moved anywhere.
SweepPaths == {PathIa, PathIb}

ResyncNext ==
  \/ TimerFire
  \/ \E d \in drains : \E ok \in BOOLEAN : ReadDone(d, ok)
  \/ \E d \in drains : \E ok \in BOOLEAN : UpsertDone(d, ok)
  \/ \E p \in SweepPaths : Create(p, TRUE, TextX)
  \/ \E p \in SweepPaths : Modify(p, TextX)
  \/ \E p \in SweepPaths : Delete(p)
  \/ \E p \in SweepPaths : \E n \in AllPaths : Rename(p, n)
  \/ \E k \in 1..Len(handlers) : \E ok \in BOOLEAN : DeleteDone(k, ok)
  \/ ResyncStart
  \/ \E r \in BagToSet(resync) : \E ok \in BOOLEAN : ResyncReadDone(r, ok)
  \/ \E r \in BagToSet(resync) : \E ok \in BOOLEAN : ResyncUpsertDone(r, ok)

\* The pipeline with syncAllInsights invoked at any time, any number of times.
ResyncSpec == Init /\ [][ResyncNext]_vars


\* ------------------------------------------------------------------ query

Insight1 == [path |-> PathIa, content |-> <<"X">>, similarity |-> 90]
Insight2 == [path |-> PathIb, content |-> <<"Y">>, similarity |-> 40]
Insight3 == [path |-> PathIb, content |-> <<"Y">>, similarity |-> 10]

\* What the retrieval service may answer: any list, in any order, whatever the
\* similarities (the client does not rely on the server honouring its settings).
RetrieveResults ==
  {<<>>, <<Insight1>>, <<Insight1, Insight2>>, <<Insight2, Insight1>>,
   <<Insight3, Insight1>>}

Question(type, text) == [type |-> type, question |-> text]

\* What the generation service may answer.
GenerateResults ==
  {<<Question("memory_invoke", "q1")>>,
   <<Question("conflict_detect", "q2"), Question("amplify", "q3")>>}

\* The fixed question shown when nothing was retrieved.
Fallback ==
  Question("amplify",
    "No related Insights found. What new understanding are you seeking with this question?")

\* The request of queryInsights: the body and the two settings as they are
\* when the request is built.
QueryRequest(body, s) ==
  [endpoint |-> "/query/insights", question_content |-> body,
   top_k |-> s.topK, min_similarity |-> s.minSimilarity]

\* A generate request that applies the settings on the client: the insights
\* below the similarity setting are dropped and the rest cut to topK.
GenerateQuestionsRequestBySettings(body, insights) ==
  LET kept == SelectSeq(insights, LAMBDA x : x.similarity >= settings.minSimilarity)
  IN [endpoint |-> "/generate/comparison-questions", current_question |-> body,
      retrieved_insights |->
        SubSeq(kept, 1, IF Len(kept) < settings.topK THEN Len(kept)
                        ELSE settings.topK)]

\* The request of generateQuestions: the body and the retrieved insights as
\* they are, and nothing else.
GenerateQuestionsRequest(body, insights) ==
  [endpoint |-> "/generate/comparison-questions", current_question |-> body,
   retrieved_insights |-> insights]

Query(id, stage, body, insights) ==
  [id |-> id, stage |-> stage, body |-> body, insights |-> insights]

\* InsightPanelView.setLoading
setLoading(pn, loading) == [pn EXCEPT !.isLoading = loading]

\* An updateResults that leaves the insight list as it was.
updateResultsKeepInsights(pn, question, insights, questions) ==
  [pn EXCEPT !.currentQuestion = <<question>>, !.questions = questions,
             !.isLoading = FALSE]

\* An updateResults that ignores a result arriving while the view is not
\* loading (as after another query has already completed).
updateResultsIfLoading(pn, question, insights, questions) ==
  IF pn.isLoading
  THEN [pn EXCEPT !.currentQuestion = <<question>>, !.insights = insights,
                  !.questions = questions, !.isLoading = FALSE]
  ELSE pn

\* InsightPanelView.updateResults
updateResults(pn, question, insights, questions) ==
  [pn EXCEPT !.currentQuestion = <<question>>, !.insights = insights,
             !.questions = questions, !.isLoading = FALSE]

\* A clearResults that only ends the loading state.
clearLoadingOnly(pn) == [pn EXCEPT !.isLoading = FALSE]

\* InsightPanelView.clearResults
clearResults(pn) ==
  [pn EXCEPT !.currentQuestion = <<>>, !.insights = <<>>, !.questions = <<>>,
             !.isLoading = FALSE]

\* A doQuery without the empty-result test.
NeverNothing(insights) == FALSE

\* The test of doQuery on the retrieval result.
NothingRetrieved(insights) == Len(insights) = 0

\* The host builds the view (the panel is activated with no leaf of its type
\* open): the factory makes a fresh view and the plugin holds it from now on,
\* whatever it held before and whatever doQuery has in flight.
OpenPanel ==
  /\ panel' = NewPanel(TRUE)
  /\ qstep' = QDid("openPanel", 0, TRUE, <<>>, <<>>, FALSE)
  /\ UNCHANGED <<queries, nQueries, settings, saved>>
  /\ UNCHANGED <<syncVars, parseVars>>

\* saveSettings: the settings object is handed to the host's store.
saveSettings(s) == s

\* The slider "Number of Results" is moved: the value is stored in the settings
\* and the settings are saved.
SetTopK(value) ==
  /\ settings' = [settings EXCEPT !.topK = value]
  /\ saved' = saveSettings(settings')
  /\ qstep' = QDid("setTopK", 0, TRUE, <<>>, <<>>, FALSE)
  /\ UNCHANGED <<panel, queries, nQueries>>
  /\ UNCHANGED <<syncVars, parseVars>>

\* The slider "Minimum Similarity" is moved.
SetMinSimilarity(value) ==
  /\ settings' = [settings EXCEPT !.minSimilarity = value]
  /\ saved' = saveSettings(settings')
  /\ qstep' = QDid("setMinSimilarity", 0, TRUE, <<>>, <<>>, FALSE)
  /\ UNCHANGED <<panel, queries, nQueries>>
  /\ UNCHANGED <<syncVars, parseVars>>

\* Another control of the settings tab is changed (Server URL, Auto Query,
\* Auto Sync, Show Similarity Scores): topK and minSimilarity stay as they are
\* and the settings are saved.
SetOtherSetting ==
  /\ saved' = saveSettings(settings)
  /\ qstep' = QDid("setOtherSetting", 0, TRUE, <<>>, <<>>, FALSE)
  /\ UNCHANGED <<panel, queries, nQueries, settings>>
  /\ UNCHANGED <<syncVars, parseVars>>

\* The host rewrites the question note (no Insight path: the sync service
\* ignores the notification).
EditQuestion(text) ==
  /\ vault[PathQ].kind = "file"
  /\ vault[PathQ].content # text
  /\ vault' = [vault EXCEPT ![PathQ] = FileEntry(text)]
  /\ qstep' = QDid("edit", 0, TRUE, <<>>, <<>>, FALSE)
  /\ UNCHANGED <<panel, queries, nQueries, settings, saved>>
  /\ UNCHANGED <<index, syncQueue, isSyncing, timerArmed, drains, handlers,
                 resync, reindexing, nEvents, enqCount, upLog, failSeen,
                 lastEvent, step>>
  /\ UNCHANGED parseVars

\* doQuery(file) is invoked on the active question note: without a panel it
\* returns; otherwise the panel shows the loading state and vault.read is
\* awaited.
DoQuery ==
  /\ nQueries < MaxQueries
  /\ IsTFile(PathQ) /\ isQuestionNote(PathQ)
  /\ nQueries' = nQueries + 1
  /\ IF ~panel.open
     THEN /\ qstep' = QDid("doQueryNoPanel", nQueries + 1, TRUE, <<>>, <<>>, FALSE)
          /\ UNCHANGED <<panel, queries>>
     ELSE /\ panel' = setLoading(panel, TRUE)
          /\ queries' = Append(queries, Query(nQueries + 1, "reading", <<>>, <<>>))
          /\ qstep' = QDid("doQuery", nQueries + 1, TRUE, <<>>, <<>>, FALSE)
  /\ UNCHANGED <<settings, saved>>
  /\ UNCHANGED <<syncVars, parseVars>>

\* The catch block of doQuery: a notice is shown and the results cleared.
QueryFailed(k, op) ==
  /\ panel' = clearResults(panel)
  /\ queries' = RemoveAt(queries, k)
  /\ qstep' = QDid(op, queries[k].id, FALSE, <<>>, <<>>, TRUE)

\* vault.read settles in doQuery: the header is stripped and queryInsights is
\* issued with the body and the settings.
QueryReadDone(k, ok) ==
  LET q == queries[k]
      body == ParseBody(vault[PathQ].content) IN
  /\ q.stage = "reading"
  /\ ok => IsTFile(PathQ)
  /\ IF ok
     THEN /\ queries' = [queries EXCEPT ![k] = Query(q.id, "retrieving", body, <<>>)]
          /\ qstep' = QDid("queryReadDone", q.id, TRUE, <<>>,
                           <<QueryRequest(body, settings)>>, FALSE)
          /\ UNCHANGED panel
     ELSE QueryFailed(k, "queryReadDone")
  /\ UNCHANGED <<nQueries, settings, saved>>
  /\ UNCHANGED <<syncVars, parseVars>>

\* queryInsights settles: with nothing retrieved the fallback question is
\* shown and doQuery returns; otherwise generateQuestions is issued with the
\* body and the retrieved insights.
RetrieveDone(k, ok, insights) ==
  LET q == queries[k] IN
  /\ q.stage = "retrieving"
  /\ IF ~ok
     THEN QueryFailed(k, "retrieveDone")
     ELSE IF NothingRetrieved(insights)
     THEN /\ panel' = updateResults(panel, q.body, <<>>, <<Fallback>>)
          /\ queries' = RemoveAt(queries, k)
          /\ qstep' = QDid("retrieveDone", q.id, TRUE, insights, <<>>, FALSE)
     ELSE /\ queries' = [queries EXCEPT
                           ![k] = Query(q.id, "generating", q.body, insights)]
          /\ qstep' = QDid("retrieveDone", q.id, TRUE, insights,
                           <<GenerateQuestionsRequest(q.body, insights)>>, FALSE)
          /\ UNCHANGED panel
  /\ UNCHANGED <<nQueries, settings, saved>>
  /\ UNCHANGED <<syncVars, parseVars>>

\* generateQuestions settles: the panel shows the retrieved insights and the
\* generated questions.
GenerateDone(k, ok, questions) ==
  LET q == queries[k] IN
  /\ q.stage = "generating"
  /\ IF ~ok
     THEN QueryFailed(k, "generateDone")
     ELSE /\ panel' = updateResults(panel, q.body, q.insights, questions)
          /\ queries' = RemoveAt(queries, k)
          /\ qstep' = QDid("generateDone", q.id, TRUE, questions, <<>>, FALSE)
  /\ UNCHANGED <<nQueries, settings, saved>>
  /\ UNCHANGED <<syncVars, parseVars>>

\* A vault holding one question note; nothing to synchronise.
QueryInitVaults ==
  {[p \in AllPaths |-> IF p = PathQ THEN FileEntry(t) ELSE NoEntry] : t \in Texts}

QInit ==
  /\ vault \in QueryInitVaults
  /\ SyncInit
  /\ panel \in {NewPanel(FALSE), NewPanel(TRUE)}
  /\ \E data \in SavedData : QueryInitOn(data)
  /\ ParseIdle

QNext ==
  \/ OpenPanel
  \/ \E v \in TopKChoices : SetTopK(v)
  \/ \E v \in MinSimilarityChoices : SetMinSimilarity(v)
  \/ SetOtherSetting
  \/ \E t \in Texts : EditQuestion(t)
  \/ DoQuery
  \/ \E k \in 1..Len(queries) : \E ok \in BOOLEAN : QueryReadDone(k, ok)
  \/ \E k \in 1..Len(queries) : \E ok \in BOOLEAN :
       \E r \in RetrieveResults : RetrieveDone(k, ok, r)
  \/ \E k \in 1..Len(queries) : \E ok \in BOOLEAN :
       \E r \in GenerateResults : GenerateDone(k, ok, r)

\* The query orchestration on its own.
QuerySpec == QInit /\ [][QNext]_vars

\* ------------------------------------------------------------------ parsing

\* A header line as written, with the key and the value it is meant to give
\* (kv: the line has the form key: value).
HeaderLine(key, written, value) ==
  [raw |-> key \o <<":", " ">> \o written, key |-> key, value |-> value, kv |-> TRUE]

LineType == HeaderLine(KeyType, <<"a">>, <<"a">>)
LineStatus == HeaderLine(KeyStatus, <<"\"", "b", "\"">>, <<"b">>)
LineCreated == HeaderLine(KeyCreated, <<"'", "d", ":", "e", "'">>, <<"d", ":", "e">>)
LineTags == HeaderLine(<<"t", "a", "g", "s">>, <<"c">>, <<"c">>)
LineSpaced == HeaderLine(KeyConfidence, <<"\t", "h", "\r">>, <<"h">>)
LineNoise == [raw |-> <<"n">>, key |-> <<>>, value |-> <<>>, kv |-> FALSE]

SampleLines == {LineType, LineStatus, LineCreated, LineTags, LineSpaced, LineNoise}

\* Number of lines between the delimiter lines of a sample text.
MaxLines == 2

LineSeqs == UNION {[1..n -> SampleLines] : n \in 0..MaxLines}

DelimiterLine == <<"-", "-", "-", "\n">>
DelimiterAtEnd == <<"-", "-", "-">>

\* The texts parseFrontmatter is exercised on: an opening line (right, wrong
\* or missing), the header lines, a closing line (with or without its line
\* end, or missing) and the rest.
ParseInputs ==
  [open : {DelimiterLine, <<"-", "-", "\n">>, <<>>},
   lines : LineSeqs,
   close : {DelimiterLine, DelimiterAtEnd, <<>>},
   body : {<<>>, <<"Y">>, <<"\n", "Y">>}]

RECURSIVE RawLines(_)
RawLines(lines) ==
  IF lines = <<>> THEN <<>>
  ELSE Head(lines).raw \o <<"\n">> \o RawLines(Tail(lines))

\* The raw text of an input.
Flatten(in) == in.open \o RawLines(in.lines) \o in.close \o in.body

\* parseFrontmatter is called on the text and returns.
Parse ==
  /\ ~pout.done
  /\ pout' = [done |-> TRUE,
              frontmatter |-> parseFrontmatter(Flatten(pin)).frontmatter,
              body |-> parseFrontmatter(Flatten(pin)).body]
  /\ UNCHANGED pin
  /\ UNCHANGED <<syncVars, queryVars>>

PInit ==
  /\ vault = [p \in AllPaths |-> NoEntry]
  /\ SyncInit
  /\ panel = NewPanel(FALSE)
  /\ QueryInit
  /\ pin \in ParseInputs
  /\ pout = NoOutput

PNext == Parse

\* parseFrontmatter on its own.
ParseSpec == PInit /\ [][PNext]_vars

\* ------------------------------------------------------------------ helpers

NoDup(seq) == \A a, b \in 1..Len(seq) : a # b => seq[a] # seq[b]

Count(seq, x) == Cardinality({k \in 1..Len(seq) : seq[k] = x})

\* The drain passes in progress and the one that ended in the last step.
Passes == drains \cup (IF step.ended.stage = "done" THEN {step.ended} ELSE {})

IsNote(path) == IsTFile(path) /\ isInsightNote(path)

\* Nothing is pending, scheduled, running or awaiting a remote call.
Quiescent ==
  /\ syncQueue = <<>>
  /\ ~timerArmed
  /\ ~isSyncing
  /\ drains = {}
  /\ handlers = <<>>
  /\ resync = EmptyBag
  /\ reindexing = 0

\* The body a note text has once its header block is removed.
ExpectedBody(text) == IF text = TextHdrY THEN <<"Y">> ELSE text

\* The remote index holds exactly the existing Insight notes, latest bodies.
IndexExact ==
  \A p \in AllPaths :
    index[p] = IF IsNote(p) THEN Indexed(ExpectedBody(vault[p].content)) ELSE Absent

\* The last step was a host notification.
EventStep == nEvents' = nEvents + 1

\* ------------------------------------------------------------------ claims

\* C1: once events have stopped and nothing is pending, scheduled, running or
\* in flight any more (so every later remote call trivially succeeds), the
\* remote index holds an entry for exactly the existing Insight notes, each
\* with the note's latest body.
C1_EventualConsistency == Quiescent => IndexExact

\* C2: a drain pass issues at most one index-upsert per snapshot path, however
\* often the path was enqueued before the snapshot, and exactly one for every
\* snapshot path it has processed that resolved to a note whose read
\* succeeded; and that call is for the path: the request in flight carries
\* the snapshot path being processed.
C2_Coalescing ==
  \A d \in Passes :
    /\ NoDup(d.issued)
    /\ \A j \in 1..Len(d.paths) :
         (j < d.i \/ (j = d.i /\ d.stage = "upserting")) =>
           Count(d.issued, d.paths[j]) =
             IF d.paths[j] \in Range(d.skipped) \cup Range(d.unread) THEN 0 ELSE 1
    /\ d.stage = "upserting" => d.sent = d.paths[d.i]

\* C3: a failed read or upsert for path P does not abort the pass (a pass ends
\* only after every snapshot path was skipped, failed to read or was upserted),
\* P is in the pending set right after the failure and when the pass ends, a
\* drain is then scheduled, and a pending path leaves the pending set only
\* into the snapshot of a pass; nothing counts or limits the retries.
C3_RetryFailedUpsert ==
  [][ /\ (step'.op \in {"readDone", "upsertDone"} /\ ~step'.ok /\ step' # step) =>
           step'.path \in Range(syncQueue')
      /\ step'.ended.stage = "done" =>
           /\ Len(step'.ended.skipped) + Len(step'.ended.unread)
                + Len(step'.ended.issued) = Len(step'.ended.paths)
           /\ Range(step'.ended.failed) \subseteq Range(syncQueue')
           /\ step'.ended.failed # <<>> => timerArmed' /\ ~isSyncing'
      /\ \A p \in Range(syncQueue) \ Range(syncQueue') :
           /\ step'.op = "drainStart"
           /\ \E d \in drains' \cup {step'.ended} : p \in Range(d.paths)
    ]_vars

\* The same path is being attempted a third time: two upserts for it were
\* issued and failed since the last notification.
C3_Witness ==
  /\ Len(upLog) = 2
  /\ upLog[1].path = upLog[2].path
  /\ failSeen
  /\ \E d \in drains :
       /\ d.stage = "reading"
       /\ d.issued = <<>>
       /\ d.paths[d.i] = upLog[1].path

\* C4: after a single create or modify notification for an Insight note, with
\* no failure, at most one index-upsert is ever issued by the drain; it carries
\* the note's path and the body (header removed) of the text in host storage;
\* once the drain is over exactly one was issued and the path is not pending.
C4_SingleEventSingleUpsert ==
  (/\ nEvents = 1
   /\ lastEvent.op \in {"create", "modify"}
   /\ lastEvent.isFile
   /\ isInsightNote(lastEvent.path)
   /\ ~failSeen) =>
     /\ Len(upLog) <= 1
     /\ \A k \in 1..Len(upLog) :
          upLog[k] = Call("upsert", lastEvent.path, ExpectedBody(lastEvent.text))
     /\ (drains = {} /\ ~timerArmed) =>
          /\ Len(upLog) = 1
          /\ lastEvent.path \notin Range(syncQueue)

\* One create of a note with a header block, drained: one upsert, body only.
C4_Witness ==
  /\ nEvents = 1
  /\ lastEvent = Event("create", PathIb, NoPath, TRUE, TextHdrY)
  /\ ~failSeen
  /\ drains = {} /\ ~timerArmed
  /\ upLog = <<Call("upsert", PathIb, <<"Y">>)>>

\* C5: a delete notification for a path outside the Insights folder issues no
\* remote call, leaves no handler waiting for one, and leaves the pending set,
\* the in-progress flag and the debounce state unchanged.
C5_DeleteNonInsight ==
  [][ (EventStep /\ lastEvent'.op = "delete" /\ ~isInsightNote(lastEvent'.path)) =>
        /\ step'.sent = <<>>
        /\ Len(handlers') = Len(handlers)
        /\ syncQueue' = syncQueue
        /\ isSyncing' = isSyncing
        /\ timerArmed' = timerArmed
    ]_vars

\* A non-Insight path was deleted while a drain pass was running.
C5_Witness ==
  /\ step.op = "delete"
  /\ ~isInsightNote(step.path)
  /\ isSyncing

\* C6: a delete notification for an Insight path issues exactly one remote
\* delete, for that path; when the call fails the handler just ends: nothing
\* is issued, the pending set and the index are unchanged; and a remote delete
\* is only ever issued by a delete or rename notification, never again later.
C6_DeleteOnceNoRetry ==
  [][ /\ (EventStep /\ lastEvent'.op = "delete" /\ isInsightNote(lastEvent'.path)) =>
           /\ step'.sent = <<Call("delete", lastEvent'.path, <<>>)>>
           /\ Len(handlers') = Len(handlers) + 1
      /\ (Len(handlers') < Len(handlers) /\ ~step'.ok /\ step'.other = NoPath) =>
           /\ step'.sent = <<>>
           /\ syncQueue' = syncQueue
           /\ timerArmed' = timerArmed
           /\ index' = index
      /\ \A k \in 1..Len(step'.sent) :
           (step'.sent[k].op = "delete" /\ step' # step) =>
             /\ EventStep
             /\ step'.sent[k].path =
                  IF lastEvent'.op = "delete" THEN lastEvent'.path ELSE lastEvent'.other
    ]_vars

\* A remote delete failed; the stale entry is still in the index and nothing
\* is pending or waiting.
C6_Witness ==
  /\ step.op = "deleteDone"
  /\ ~step.ok
  /\ step.other = NoPath
  /\ index[step.path].present
  /\ handlers = <<>>
  /\ syncQueue = <<>>


\* C7: a rename from an Insight path A to a path B outside the Insights folder
\* issues exactly one remote delete, for A, and neither the notification nor
\* the settling of that delete changes the pending set or schedules a drain,
\* also when A is pending or being drained; and no upsert follows for A or B:
\* an upsert is only ever issued for a path that is an Insight note at that
\* moment.
C7_RenameOut ==
  [][ /\ (EventStep /\ lastEvent'.op = "rename"
            /\ isInsightNote(lastEvent'.other) /\ ~isInsightNote(lastEvent'.path)) =>
           /\ step'.sent = <<Call("delete", lastEvent'.other, <<>>)>>
           /\ syncQueue' = syncQueue
           /\ timerArmed' = timerArmed
      /\ (Len(handlers') < Len(handlers)
            /\ step'.other # NoPath /\ ~isInsightNote(step'.other)) =>
           /\ step'.sent = <<>>
           /\ syncQueue' = syncQueue
           /\ timerArmed' = timerArmed
           /\ drains' = drains
      /\ \A k \in 1..Len(step'.sent) :
           (step'.sent[k].op = "upsert" /\ step' # step) =>
             /\ vault'[step'.sent[k].path].kind = "file"
             /\ isInsightNote(step'.sent[k].path)
    ]_vars

\* C8: a file renamed to an Insight path B is enqueued; coming from outside
\* the Insights folder it is enqueued at once and no remote delete is issued;
\* coming from an Insight path A exactly one remote delete for A is issued at
\* once, B is not enqueued by the notification, and B is enqueued (and a drain
\* scheduled) when that delete settles, whether it succeeded or failed.
C8_RenameToInsight ==
  [][ /\ (EventStep /\ lastEvent'.op = "rename" /\ lastEvent'.isFile
            /\ ~isInsightNote(lastEvent'.other) /\ isInsightNote(lastEvent'.path)) =>
           /\ step'.sent = <<>>
           /\ Len(handlers') = Len(handlers)
           /\ lastEvent'.path \in Range(syncQueue')
           /\ timerArmed'
      /\ (EventStep /\ lastEvent'.op = "rename" /\ lastEvent'.isFile
            /\ isInsightNote(lastEvent'.other) /\ isInsightNote(lastEvent'.path)) =>
           /\ step'.sent = <<Call("delete", lastEvent'.other, <<>>)>>
           /\ syncQueue' = syncQueue
           /\ Len(handlers') = Len(handlers) + 1
           /\ handlers'[Len(handlers')] =
                Handler("within", lastEvent'.other, lastEvent'.path, TRUE)
      /\ (step'.op = "deleteDone" /\ step' # step
            /\ isInsightNote(step'.path) /\ isInsightNote(step'.other)) =>
           /\ step'.sent = <<>>
           /\ \E k \in 1..Len(handlers) :
                /\ handlers[k].target = step'.path
                /\ handlers[k].new = step'.other
                /\ handlers' = RemoveAt(handlers, k)
                /\ handlers[k].isFile =>
                     /\ step'.other \in Range(syncQueue')
                     /\ timerArmed'
    ]_vars

\* C9: a full resync lists the files that are Insight notes when it starts
\* and attempts a sync (the read and then the upsert) for every one of them;
\* while it runs, the notes counted as indexed plus the error entries equal
\* the notes already gone through, each of which was attempted; when it
\* returns, indexed plus errors equals the number of notes swept, all of them
\* attempted: a failure never stops the sweep.
C9_FullResyncAccounting ==
  /\ step.op = "resyncStart" =>
       /\ step.stats.returned => step.stats.swept = <<>>
       /\ \E r \in BagToSet(resync) \cup {NoResync} :
            LET swept == IF step.stats.returned THEN <<>> ELSE r.listed
            IN /\ Range(swept) = {p \in AllPaths : IsNote(p)}
               /\ NoDup(swept)
  /\ \A r \in BagToSet(resync) :
       /\ r.i \in 1..Len(r.files)
       /\ r.indexed + Len(r.errors) = r.i - 1
       /\ r.attempted = r.i
  /\ step.stats.returned =>
       /\ step.stats.indexed + Len(step.stats.errors) = Len(step.stats.swept)
       /\ step.stats.attempted = Len(step.stats.swept)

\* C10: when the retrieval of a query returns an empty sequence, doQuery
\* issues no Generate call and ends; the panel then shows the query's body as
\* current question, an empty insight list and exactly one question, the fixed
\* fallback of type amplify, is not loading, and no notice was shown.
C10_EmptyRetrievalFallback ==
  (qstep.op = "retrieveDone" /\ qstep.ok /\ qstep.result = <<>>) =>
    /\ qstep.sent = <<>>
    /\ \A k \in 1..Len(queries) : queries[k].id # qstep.id
    /\ panel.insights = <<>>
    /\ Len(panel.questions) = 1
    /\ panel.questions[1].type = "amplify"
    /\ panel.questions[1] = Fallback
    /\ Len(panel.currentQuestion) = 1
    /\ ~panel.isLoading
    /\ ~qstep.notice

\* An empty retrieval replaced the insights an earlier query had displayed.
C10_Witness ==
  /\ qstep.op = "retrieveDone" /\ qstep.ok /\ qstep.result = <<>>
  /\ qstep.id = 2
  /\ panel.questions = <<Fallback>>
  /\ panel.currentQuestion = <<<<"Y">>>>

\* The position of a doQuery execution: reading, retrieving, generating.
StageRank(stage) ==
  IF stage = "reading" THEN 1 ELSE IF stage = "retrieving" THEN 2 ELSE 3

\* C11: the retrieval request carries the note body and the settings of the
\* moment; a retrieval that returns one or more insights is followed by exactly
\* one generateQuestions request, issued in that step and carrying the note
\* body and the retrieved insights as returned (same elements, same order) and
\* nothing else, whatever topK and minSimilarity are; what the execution keeps
\* for the display is the list Retrieve returned, and it keeps it unchanged
\* until generation settles;
\* no other step issues one and an execution never returns to an earlier
\* stage; when generation succeeds the panel shows exactly the retrieved
\* insights and exactly the generated questions.
C11_GenerateOnceVerbatim ==
  [][ /\ (qstep'.op = "queryReadDone" /\ qstep'.ok) =>
           /\ Len(qstep'.sent) = 1
           /\ qstep'.sent[1] =
                [endpoint |-> "/query/insights",
                 question_content |-> ExpectedBody(vault[PathQ].content),
                 top_k |-> settings.topK,
                 min_similarity |-> settings.minSimilarity]
      /\ (qstep'.op = "retrieveDone" /\ qstep'.ok /\ qstep'.result # <<>>) =>
           \E k \in 1..Len(queries) :
             /\ queries[k].id = qstep'.id
             /\ queries[k].stage = "retrieving"
             /\ Len(qstep'.sent) = 1
             /\ qstep'.sent[1] =
                  [endpoint |-> "/generate/comparison-questions",
                   current_question |-> queries[k].body,
                   retrieved_insights |-> qstep'.result]
             /\ queries'[k].id = qstep'.id
             /\ queries'[k].stage = "generating"
             /\ queries'[k].body = queries[k].body
             /\ queries'[k].insights = qstep'.result
             /\ panel' = panel
      /\ (\E c \in Range(qstep'.sent) :
            c.endpoint = "/generate/comparison-questions") =>
           qstep'.op = "retrieveDone" /\ qstep'.ok /\ qstep'.result # <<>>
      /\ \A k \in 1..Len(queries) : \A j \in 1..Len(queries') :
           queries[k].id = queries'[j].id =>
             /\ StageRank(queries'[j].stage) >= StageRank(queries[k].stage)
             /\ (queries[k].stage = "generating" =>
                   queries'[j] = queries[k] /\ qstep'.id # queries[k].id)
      /\ (qstep'.op = "generateDone" /\ qstep'.ok) =>
           \E k \in 1..Len(queries) :
             /\ queries[k].id = qstep'.id
             /\ queries[k].stage = "generating"
             /\ qstep'.sent = <<>>
             /\ panel'.insights = queries[k].insights
             /\ panel'.questions = qstep'.result
             /\ panel'.currentQuestion = <<queries[k].body>>
             /\ ~panel'.isLoading
    ]_vars

\* Generation succeeded for a retrieval that returned two insights, the first
\* below the similarity setting, with topK at one and the similarity setting
\* raised: the panel shows both insights in that order.
C11_Witness ==
  /\ qstep.op = "generateDone" /\ qstep.ok
  /\ settings.topK = TopKLowest /\ settings.minSimilarity > MinSimilarity
  /\ panel.insights = <<Insight3, Insight1>>
  /\ Len(panel.questions) = 2
  /\ panel.questions = qstep.result

\* C12: when the read, the retrieval or the generation of a doQuery fails,
\* that execution ends there: the panel shows no question, no insights and no
\* questions and is not loading, a notice was shown, no request was sent in
\* that step (the failed call is not repeated) and the execution is gone, its
\* id never used again; this holds for a generation failure too, so none of
\* the insights retrieved before it are shown.
C12_FailureClears ==
  /\ \A k \in 1..Len(queries) : queries[k].id <= nQueries
  /\ \A k, j \in 1..Len(queries) : k # j => queries[k].id # queries[j].id
  /\ (qstep.op \in {"queryReadDone", "retrieveDone", "generateDone"} /\ ~qstep.ok) =>
       /\ panel.currentQuestion = <<>>
       /\ panel.insights = <<>>
       /\ panel.questions = <<>>
       /\ ~panel.isLoading
       /\ qstep.notice
       /\ qstep.sent = <<>>
       /\ \A k \in 1..Len(queries) : queries[k].id # qstep.id

\* The generation of the second query failed after the first query had
\* completed: the panel is as constructed.
C12_Witness ==
  /\ qstep.op = "generateDone" /\ ~qstep.ok
  /\ qstep.id = 2
  /\ queries = <<>>
  /\ panel = NewPanel(TRUE)

\* The step s ended an execution of doQuery: a failure, an empty retrieval or
\* a settled generation.
Completes(s) ==
  /\ s.op \in {"queryReadDone", "retrieveDone", "generateDone"}
  /\ \/ ~s.ok
     \/ s.op = "generateDone"
     \/ s.op = "retrieveDone" /\ s.result = <<>>

\* What the panel displays.
Shown(pn) == <<pn.currentQuestion, pn.insights, pn.questions>>

\* C13: executions of doQuery overlap freely. When one of them completes,
\* whatever its age, every other execution stays in flight untouched and the
\* panel takes the outcome of the completing one (its insights and questions,
\* the fallback, or the cleared state); no other step of a query changes what
\* the panel displays, so the display of a view is always that of the execution
\* that completed last; the only other change is the host building a fresh
\* view, which displays nothing and cancels no execution.
C13_OverlappingLastWins ==
  [][ /\ Completes(qstep') =>
           \E k \in 1..Len(queries) :
             /\ queries[k].id = qstep'.id
             /\ Len(queries') = Len(queries) - 1
             /\ \A j \in 1..Len(queries) : j # k => queries[j] \in Range(queries')
             /\ ~panel'.isLoading
             /\ Shown(panel') =
                  IF ~qstep'.ok THEN <<<<>>, <<>>, <<>>>>
                  ELSE IF qstep'.op = "retrieveDone"
                  THEN <<<<queries[k].body>>, <<>>, <<Fallback>>>>
                  ELSE <<<<queries[k].body>>, queries[k].insights, qstep'.result>>
      /\ ~Completes(qstep') =>
           /\ \/ Shown(panel') = Shown(panel)
              \/ qstep'.op = "openPanel" /\ panel' = NewPanel(TRUE)
           /\ \A k \in 1..Len(queries) :
                \E j \in 1..Len(queries') : queries'[j].id = queries[k].id
    ]_vars

\* The first query completed after the second one had: the panel shows the
\* first query's result although the second was started last.
C13_Witness ==
  /\ qstep.op = "generateDone" /\ qstep.ok
  /\ qstep.id = 1
  /\ nQueries = 2
  /\ queries = <<>>
  /\ panel.questions = qstep.result
  /\ panel.insights # <<>>

\* C14: once a newer doQuery has started, the result (success or failure) of
\* a remote call of an older execution leaves the panel as it is: question,
\* insights, questions and loading state.
C14_Supersession ==
  [][ (/\ qstep'.op \in {"retrieveDone", "generateDone"}
       /\ Completes(qstep')
       /\ qstep'.id < nQueries) => panel' = panel ]_vars

\* The input begins with a well-formed header block: the opening delimiter
\* line, zero or more key: value lines (no key twice), the closing delimiter
\* line.
WellFormedHeader(in) ==
  /\ in.open = DelimiterLine
  /\ \A k \in 1..Len(in.lines) : in.lines[k].kv
  /\ \A k, j \in 1..Len(in.lines) : k # j => in.lines[k].key # in.lines[j].key
  /\ \/ in.close = DelimiterLine
     \/ in.close = DelimiterAtEnd /\ in.body = <<>>

\* The input has no header: no opening delimiter line, or no closing one.
NoHeader(in) == in.open # DelimiterLine \/ in.close = <<>>

\* The recognized keys written in the header lines, with their values.
ExpectedFrontmatter(lines) ==
  [key \in RecognizedKeys |->
     IF \E k \in 1..Len(lines) : lines[k].key = key
     THEN <<(CHOOSE l \in Range(lines) : l.key = key).value>>
     ELSE <<>>]

\* C15: for a text that begins with a well-formed header block the parser
\* returns exactly the recognized keys of the header with their unquoted
\* values and, as body, the text after the closing delimiter line; for a text
\* without a header it returns the empty frontmatter and the whole text.
C15_ParseContract ==
  pout.done =>
    /\ WellFormedHeader(pin) =>
         /\ pout.frontmatter = ExpectedFrontmatter(pin.lines)
         /\ pout.body = pin.body
    /\ NoHeader(pin) =>
         /\ pout.frontmatter = EmptyFrontmatter
         /\ pout.body = Flatten(pin)

\* The same contract for headers with at least one line (a sanity check of
\* the parser model against the inputs on which the contract is met).
ParseContractNonEmptyHeader ==
  (pout.done /\ pin.lines # <<>>) =>
    /\ WellFormedHeader(pin) =>
         /\ pout.frontmatter = ExpectedFrontmatter(pin.lines)
         /\ pout.body = pin.body
    /\ NoHeader(pin) =>
         /\ pout.frontmatter = EmptyFrontmatter
         /\ pout.body = Flatten(pin)

\* C16: at most one execution of processSyncQueue is past its guard at any
\* time; isSyncing is true exactly while one is, and it is false in the state
\* a pass leaves behind, whether or not syncs failed in it.
C16_DrainMutualExclusion ==
  /\ Cardinality(drains) <= 1
  /\ isSyncing <=> drains # {}
  /\ step.ended.stage = "done" => ~isSyncing /\ drains = {}

\* The debounce timer fired with paths pending while a pass was running: the
\* call returned at the guard and the running pass is still the only one.
C16_Witness ==
  /\ step.op = "drainIgnored"
  /\ isSyncing
  /\ syncQueue # <<>>
  /\ Cardinality(drains) = 1

\* The pass record is the one of the same execution one step later.
SamePass(d, e) == e.paths = d.paths /\ e.enq = d.enq /\ e.i >= d.i

\* The paths pass d has dealt with so far, by position.
Handled(d) ==
  IF d.stage = "done" THEN d.paths
  ELSE IF d.stage = "upserting" THEN SubSeq(d.paths, 1, d.i)
  ELSE SubSeq(d.paths, 1, d.i - 1)

\* C17: a pass takes the whole pending set as its snapshot and empties the
\* set in the same step; the snapshot never changes afterwards and is walked
\* by increasing position, one path in flight at a time, each path handled
\* once (skipped, failed to read, or upserted); a step of a running pass takes
\* nothing out of the pending set, so a path an event adds during the pass,
\* even one that is in the snapshot, stays pending until the next pass takes
\* its snapshot: a path leaves the pending set only into a snapshot.
C17_SnapshotIsolation ==
  [][ /\ step'.op = "drainStart" =>
           /\ syncQueue' = <<>>
           /\ \A d \in drains' \cup {step'.ended} :
                d.stage # "none" => d.paths = syncQueue
           /\ drains' # {} \/ step'.ended.stage = "done"
      /\ step'.op # "drainStart" =>
           /\ \A d \in drains : \A e \in drains' : SamePass(d, e)
           /\ \A d \in drains : step'.ended.stage = "done" => SamePass(d, step'.ended)
           /\ Range(syncQueue) \subseteq Range(syncQueue')
      /\ \A d \in drains' \cup {step'.ended} :
           d.stage # "none" =>
             /\ Range(d.skipped) \cup Range(d.unread) \cup Range(d.issued)
                  = Range(Handled(d))
             /\ Len(d.skipped) + Len(d.unread) + Len(d.issued) = Len(Handled(d))
             /\ NoDup(d.paths)
    ]_vars

\* A note in the snapshot was modified while the pass was running: the pass
\* upserted it once, did not fail on it, and it is pending when the pass ends.
C17_Witness ==
  /\ step.ended.stage = "done"
  /\ \E p \in Range(step.ended.paths) :
       /\ Count(step.ended.issued, p) = 1
       /\ p \notin Range(step.ended.failed)
       /\ p \in Range(syncQueue)
       /\ enqCount[p] >= 1

\* C19: whenever the pending set is not empty a pass is running or the
\* debounced trigger has a call pending, also right after the trigger fired
\* and returned at the guard; a pass that ends with paths pending leaves the
\* trigger called, and one that ends with none pending leaves the service
\* idle with nothing scheduled.
C19_NoStrandedPaths ==
  /\ syncQueue # <<>> => isSyncing \/ timerArmed
  /\ step.ended.stage = "done" =>
       /\ ~isSyncing
       /\ syncQueue # <<>> => timerArmed
       /\ syncQueue = <<>> => ~timerArmed /\ drains = {}

\* A pass without failures ended with a path pending that an event had added
\* while it ran; a drain is scheduled.
C19_Witness ==
  /\ step.ended.stage = "done"
  /\ step.ended.failed = <<>>
  /\ step.ended.issued # <<>>
  /\ syncQueue # <<>>
  /\ timerArmed
  /\ ~isSyncing

\* The path resolves to an Insight file in vault v.
IsNoteIn(v, path) == v[path].kind = "file" /\ isInsightNote(path)

\* The step s is one of processSyncQueue: its start or a call settling in it.
PassStep(s) == s.op \in {"drainStart", "readDone", "upsertDone"}

\* How many paths the running pass had skipped before the step.
SkippedBefore == IF drains = {} THEN 0 ELSE Len((CHOOSE d \in drains : TRUE).skipped)

\* C20: when a pass reaches a snapshot path that does not resolve to a note
\* at that moment (deleted or renamed away since it was enqueued), it skips
\* it: no upsert is issued for it in the pass, the pass's catch block does not
\* handle it, the step does not put it in the pending set, and the pass goes
\* on to the next path that resolves to a note or, after the last path, ends.
\* A path the pass suspends on did resolve to a note when it was reached.
\* (Stated of the pass a step of processSyncQueue has advanced.)
C20_SkipUnresolvedPath ==
  [][ \A e \in (drains' \cup {step'.ended}) \ drains :
        (PassStep(step') /\ e.stage # "none") =>
          /\ Len(e.skipped) >= SkippedBefore
          /\ \A k \in (SkippedBefore + 1)..Len(e.skipped) :
               /\ ~IsNoteIn(vault', e.skipped[k])
               /\ e.skipped[k] \notin Range(syncQueue') \ Range(syncQueue)
               /\ step'.op = "drainStart" => e.skipped[k] \notin Range(syncQueue')
          /\ \A p \in Range(e.skipped) :
               /\ p \notin Range(e.issued)
               /\ p \notin Range(e.failed)
               /\ p \notin Range(e.unread)
          /\ e.stage = "reading" => IsNoteIn(vault', e.paths[e.i])
          /\ e.stage = "done" => e.i = Len(e.paths) + 1
    ]_vars

\* Insights/a was modified and then renamed to Insights/b: the pass found
\* Insights/a unresolved, skipped it and went on to upsert Insights/b.
C20_Witness ==
  \E d \in Passes :
    /\ d.paths = <<PathIa, PathIb>>
    /\ d.skipped = <<PathIa>>
    /\ d.issued = <<PathIb>>
    /\ PathIa \notin Range(syncQueue)

\* What the completion recorded in step s of the execution q writes: nothing
\* displayed after a failure, the fallback after an empty retrieval, else the
\* execution's own body and insights with the questions generated for it.
Outcome(q, s) ==
  IF ~s.ok THEN <<<<>>, <<>>, <<>>>>
  ELSE IF s.op = "retrieveDone" THEN <<<<q.body>>, <<>>, <<Fallback>>>>
  ELSE <<<<q.body>>, q.insights, s.result>>

\* C21: the panel starts with nothing displayed; a step that changes the
\* displayed question, insights or questions is the completion of one
\* execution of doQuery and writes all three from that execution alone (or
\* clears all three), however many executions are in flight, or it is the host
\* building a fresh view, which displays nothing at all; the step that starts
\* a query sets the loading flag and nothing else.
C21_WholesaleUpdate ==
  /\ Shown(panel) = <<<<>>, <<>>, <<>>>>
  /\ [][ /\ Shown(panel') # Shown(panel) =>
              \/ /\ Completes(qstep')
                 /\ \E k \in 1..Len(queries) :
                      /\ queries[k].id = qstep'.id
                      /\ Shown(panel') = Outcome(queries[k], qstep')
              \/ /\ qstep'.op = "openPanel"
                 /\ Shown(panel') = <<<<>>, <<>>, <<>>>>
         /\ qstep'.op = "doQuery" => panel' = [panel EXCEPT !.isLoading = TRUE]
         /\ qstep'.op = "doQueryNoPanel" => panel' = panel
       ]_vars

\* A query completed with insights and generated questions while another one
\* was still in flight: the panel shows that query's insights and questions.
C21_Witness ==
  /\ qstep.op = "generateDone" /\ qstep.ok
  /\ queries # <<>>
  /\ panel.insights # <<>>
  /\ panel.questions = qstep.result
  /\ panel.questions # <<Fallback>>

\* The last step was one of syncAllInsights.
ResyncStep(s) == s.op \in {"resyncStart", "resyncReadDone", "resyncUpsertDone"}

\* C22: no step of syncAllInsights (its start, a read settling, an upsert
\* settling, its return) changes the pending set, isSyncing, the pending call
\* of the debounced trigger or a running drain pass, whether or not a pass is
\* in progress; a note whose sync fails goes to the error list of the stats
\* and is not enqueued (the pending set is as it was before the step).
C22_ResyncNoQueueInteraction ==
  [][ ResyncStep(step') =>
        /\ UNCHANGED <<syncQueue, isSyncing, timerArmed, drains, enqCount, handlers>>
        /\ ~step'.ok =>
             \/ step'.path \in Range(step'.stats.errors)
             \/ \E r \in BagToSet(resync') : step'.path \in Range(r.errors)
    ]_vars

\* An upsert of the resync failed while a drain pass was in progress: the
\* note is in the error list, not in the pending set, and the pass goes on.
C22_Witness ==
  /\ step.op = "resyncUpsertDone" /\ ~step.ok
  /\ isSyncing
  /\ drains # {}
  /\ step.path \in Range(step.stats.errors)
  /\ step.path \notin Range(syncQueue)

\* The path lies in the Insights folder.
UnderInsights(path) == StartsWith(path, InsightsPrefix)

\* C23: every path in the pending set, and in the snapshot of a pass, lies in
\* the Insights folder, after any notifications and drain steps; a create,
\* modify or delete notification for a path outside it, and a rename between
\* two paths outside it, adds nothing to the pending set, calls no trigger,
\* leaves no handler waiting and issues no remote call.
C23_OnlyInsightPathsPending ==
  /\ \A p \in Range(syncQueue) : UnderInsights(p)
  /\ [][ /\ \A p \in Range(syncQueue') : UnderInsights(p) /\ classifyNote(p) = "insight"
         /\ \A d \in drains' : \A p \in Range(d.paths) : UnderInsights(p)
         /\ (/\ EventStep
             /\ ~UnderInsights(lastEvent'.path)
             /\ lastEvent'.op = "rename" => ~UnderInsights(lastEvent'.other)) =>
              /\ syncQueue' = syncQueue
              /\ timerArmed' = timerArmed
              /\ Len(handlers') = Len(handlers)
              /\ step'.sent = <<>>
              /\ index' = index
       ]_vars

====
